---- MODULE Spec2Model ----
(***************************************************************************)
(* ClusterCost CLI: the input validators, the dashboard Helm argument      *)
(* builder and the interactive flows of run() that feed them, modelled     *)
(* from src/src/__tests__/validation.test.mjs (the body of index.mjs).     *)
(* runShellCommand and establishPortForward are also followed event by     *)
(* event, one child process at a time (SpecShell, SpecForward).            *)
(*                                                                         *)
(* JavaScript values are records tagged by "type": undefined, null,        *)
(* string (field str) and throw (an exception leaving the call).           *)
(* JavaScript strings are TLA+ strings; characters are taken with SubSeq.  *)
(***************************************************************************)
EXTENDS Integers, Sequences, FiniteSets, TLC

\* ---------------------------------------------------------------- state
VARIABLES
  \* the pure functions applied to one raw value
  rawValue,          \* the raw value handed to the pure functions
  nsResult,          \* validateNamespace(value), once called
  svcResult,         \* validateServiceName(value), once called
  portResult,        \* validatePort(value), once called
  helmArgs,          \* buildDashboardHelmArgs(value), once called
  \* repeated calls of buildDashboardHelmArgs
  heap,              \* the arrays allocated so far, by address
  refs,              \* per call, the address of the array it returned
  callNs,            \* per call, the namespace it was given
  returned,          \* per call, the contents of its array when it returned
  altered,           \* the calls whose returned array the caller changed
  \* run() and the flows it dispatches to
  pc,                \* position in run()
  installState,      \* the module-level cache of the detected releases
  menu,              \* the options handed to select() and its initialValue
  local,             \* the local variables of the flow in progress
  promptError,       \* the message a text prompt shows for a rejected value
  missing,           \* ensurePrerequisites: missing
  debugStep,         \* showDebugInfo: the commands run so far
  lastCmd,           \* the latest command spawned by the flow in progress
  exitCode,          \* process.exitCode
  outcome,           \* how run() ended
  changed,           \* history: a command that writes has been run in this run
  \* one spawned child process and the promise built around it
  child              \* the handlers' closure variables and the promise

pureVars == << rawValue, nsResult, svcResult, portResult, helmArgs >>

builderVars == << heap, refs, callNs, returned, altered >>

flowVars ==
  << pc, menu, local, promptError, missing, debugStep, lastCmd, exitCode, outcome,
     changed >>

vars == << pureVars, builderVars, installState, flowVars, child >>

\* ---------------------------------------------------------------- bounds
\* Longest string enumerated exhaustively over Alphabet.
MaxLen == 3

\* Calls of buildDashboardHelmArgs followed in one behaviour.
MaxCalls == 3

\* Longest text typed into a prompt, enumerated over TypedAlphabet.
MaxTyped == 1

\* Most releases in one answer of "helm list".
MaxReleases == 2

\* Most 'data' events of one child process.
MaxChunks == 3

\* ------------------------------------------------------------ JS values
Undefined == [type |-> "undefined"]
Null == [type |-> "null"]
JsString(s) == [type |-> "string", str |-> s]
TypeError == [type |-> "throw", error |-> "TypeError"]
NaN == [nan |-> TRUE]

\* ------------------------------------------------------ program constants
DEFAULT_NAMESPACE == "clustercost"
HELM_REPO_NAME == "clustercost"
HELM_REPO_URL == "https://charts.clustercost.com"
AGENT_RELEASE == "clustercost-agent"
AGENT_CHART == "clustercost/clustercost-agent-k8s"
DASHBOARD_RELEASE == "clustercost-dashboard"
DASHBOARD_CHART == "clustercost/clustercost-dashboard"
DASHBOARD_SERVICE == "clustercost-dashboard"
DASHBOARD_TARGET_PORT == 9090
DASHBOARD_LOCAL_PORT == 3000
AGENT_SERVICE_PORT == 8080
MAX_TCP_PORT == 65535

\* ------------------------------------------------------- string helpers
CharAt(s, i) == SubSeq(s, i, i)

\* The characters matched by /\s/ and removed by String.prototype.trim that
\* occur in the modelled alphabet.
WhiteSpaceChars == {" ", "\t"}

IsWhiteSpace(c) == c \in WhiteSpaceChars

RECURSIVE TrimStart(_)
TrimStart(s) ==
  IF Len(s) > 0 /\ IsWhiteSpace(CharAt(s, 1))
    THEN TrimStart(SubSeq(s, 2, Len(s)))
    ELSE s

RECURSIVE TrimEnd(_)
TrimEnd(s) ==
  IF Len(s) > 0 /\ IsWhiteSpace(CharAt(s, Len(s)))
    THEN TrimEnd(SubSeq(s, 1, Len(s) - 1))
    ELSE s

\* String.prototype.trim
Trim(s) == TrimEnd(TrimStart(s))

\* /\s/.test(s)
HasWhiteSpace(s) == \E i \in 1..Len(s) : IsWhiteSpace(CharAt(s, i))

\* s.split(sep)[1] for a one-character separator that occurs in s
RECURSIVE AfterFirst(_, _)
AfterFirst(s, sep) ==
  IF Len(s) = 0 THEN ""
  ELSE IF CharAt(s, 1) = sep THEN SubSeq(s, 2, Len(s))
  ELSE AfterFirst(SubSeq(s, 2, Len(s)), sep)

RECURSIVE UpToFirst(_, _)
UpToFirst(s, sep) ==
  IF Len(s) = 0 \/ CharAt(s, 1) = sep THEN ""
  ELSE CharAt(s, 1) \o UpToFirst(SubSeq(s, 2, Len(s)), sep)

SplitSecond(s, sep) == UpToFirst(AfterFirst(s, sep), sep)

\* ------------------------------------------------------------- numbers
Digits == "0123456789"

IsDigit(c) == \E d \in 1..10 : CharAt(Digits, d) = c

DigitVal(c) == (CHOOSE d \in 1..10 : CharAt(Digits, d) = c) - 1

AllDigits(s) == \A i \in 1..Len(s) : IsDigit(CharAt(s, i))

RECURSIVE DigitsToInt(_)
DigitsToInt(s) ==
  IF Len(s) = 0 THEN 0
  ELSE 10 * DigitsToInt(SubSeq(s, 1, Len(s) - 1)) + DigitVal(CharAt(s, Len(s)))

RECURSIVE StripTrailingZeros(_)
StripTrailingZeros(s) ==
  IF Len(s) > 0 /\ CharAt(s, Len(s)) = "0"
    THEN StripTrailingZeros(SubSeq(s, 1, Len(s) - 1))
    ELSE s

\* A finite number: sign, integer part, and the fraction's decimal digits
\* without trailing zeros ("" for an integer-valued number).
Num(neg, int, frac) == [nan |-> FALSE, neg |-> neg, int |-> int, frac |-> frac]

\* StrUnsignedDecimalLiteral restricted to digits and ".":
\* digits, digits "." digits?, "." digits
UnsignedDecimal(s, neg) ==
  LET dot == IF \E i \in 1..Len(s) : CharAt(s, i) = "."
               THEN CHOOSE i \in 1..Len(s) :
                      /\ CharAt(s, i) = "."
                      /\ \A j \in 1..(i - 1) : CharAt(s, j) # "."
               ELSE 0
      ip == IF dot = 0 THEN s ELSE SubSeq(s, 1, dot - 1)
      fp == IF dot = 0 THEN "" ELSE SubSeq(s, dot + 1, Len(s))
  IN IF Len(ip) + Len(fp) = 0 \/ ~AllDigits(ip) \/ ~AllDigits(fp)
       THEN NaN
       ELSE Num(neg, DigitsToInt(ip), StripTrailingZeros(fp))

\* Number(s) for a string s (StringToNumber): surrounding white space is
\* ignored, the empty string is +0, an optional sign precedes the decimal
\* literal. Exponents, "Infinity" and 0x/0o/0b literals need characters
\* outside the modelled alphabet.
StringToNumber(s) ==
  LET t == Trim(s)
  IN IF Len(t) = 0 THEN Num(FALSE, 0, "")
     ELSE IF CharAt(t, 1) = "-" THEN UnsignedDecimal(SubSeq(t, 2, Len(t)), TRUE)
     ELSE IF CharAt(t, 1) = "+" THEN UnsignedDecimal(SubSeq(t, 2, Len(t)), FALSE)
     ELSE UnsignedDecimal(t, FALSE)

\* Number(v) for a JS value
ToNumber(v) ==
  IF v.type = "undefined" THEN NaN
  ELSE IF v.type = "null" THEN Num(FALSE, 0, "")
  ELSE StringToNumber(v.str)

IntNum(n) == Num(FALSE, n, "")

IsNaN(n) == n.nan

\* n <= 0 and n > k for a number n and a natural k (false for NaN)
LeZero(n) == ~n.nan /\ (n.neg \/ (n.int = 0 /\ n.frac = ""))

GreaterThan(n, k) == ~n.nan /\ ~n.neg /\ (n.int > k \/ (n.int = k /\ n.frac # ""))

IsZero(n) == ~n.nan /\ n.int = 0 /\ n.frac = ""

\* ToBoolean of a number
Truthy(n) == ~n.nan /\ ~IsZero(n)

RECURSIVE IntToString(_)
IntToString(n) ==
  IF n < 10 THEN CharAt(Digits, n + 1)
  ELSE IntToString(n \div 10) \o CharAt(Digits, (n % 10) + 1)

\* String(n) for the finite numbers above (no exponent form arises for the
\* magnitudes reachable from at most a few typed digits)
NumberToString(n) ==
  IF n.nan THEN "NaN"
  ELSE (IF n.neg /\ ~IsZero(n) THEN "-" ELSE "")
         \o IntToString(n.int)
         \o (IF n.frac = "" THEN "" ELSE "." \o n.frac)

\* ----------------------------------------------------------- validators
MSG_NAMESPACE_EMPTY == "Namespace cannot be empty."
MSG_NAMESPACE_SPACES == "Namespace cannot contain spaces."
MSG_SERVICE_REQUIRED == "Service name is required."
MSG_SERVICE_SPACES == "Service name cannot contain spaces."
MSG_PORT == "Enter a valid TCP port (1-65535)."

\* validateNamespace without the undefined/null guard: value.trim() on an
\* absent value throws.
validateNamespaceNoGuard(value) ==
  IF value.type # "string" THEN TypeError
  ELSE LET trimmed == Trim(value.str)
       IN IF trimmed = "" THEN JsString(MSG_NAMESPACE_EMPTY)
          ELSE IF HasWhiteSpace(trimmed) THEN JsString(MSG_NAMESPACE_SPACES)
          ELSE Undefined

\* validateNamespace testing the raw value instead of the trimmed one.
validateNamespaceNoTrim(value) ==
  IF value.type \in {"undefined", "null"} THEN JsString(MSG_NAMESPACE_EMPTY)
  ELSE IF value.type # "string" THEN TypeError
  ELSE IF value.str = "" THEN JsString(MSG_NAMESPACE_EMPTY)
  ELSE IF HasWhiteSpace(value.str) THEN JsString(MSG_NAMESPACE_SPACES)
  ELSE Undefined

validateNamespace(value) ==
  IF value.type \in {"undefined", "null"} THEN JsString(MSG_NAMESPACE_EMPTY)
  ELSE IF value.type # "string" THEN TypeError
  ELSE LET trimmed == Trim(value.str)
       IN IF trimmed = "" THEN JsString(MSG_NAMESPACE_EMPTY)
          ELSE IF HasWhiteSpace(trimmed) THEN JsString(MSG_NAMESPACE_SPACES)
          ELSE Undefined

\* validateServiceName with the white-space rule left out.
validateServiceNameNoSpaceRule(value) ==
  IF value.type \in {"undefined", "null"} THEN JsString(MSG_SERVICE_REQUIRED)
  ELSE IF value.type # "string" THEN TypeError
  ELSE IF Trim(value.str) = "" THEN JsString(MSG_SERVICE_REQUIRED)
  ELSE Undefined

validateServiceName(value) ==
  IF value.type \in {"undefined", "null"} THEN JsString(MSG_SERVICE_REQUIRED)
  ELSE IF value.type # "string" THEN TypeError
  ELSE LET trimmed == Trim(value.str)
       IN IF trimmed = "" THEN JsString(MSG_SERVICE_REQUIRED)
          ELSE IF HasWhiteSpace(trimmed) THEN JsString(MSG_SERVICE_SPACES)
          ELSE Undefined

validatePort(value) ==
  LET trimmed == IF value.type = "string" THEN JsString(Trim(value.str)) ELSE value
      numeric == ToNumber(trimmed)
  IN IF IsNaN(numeric) \/ LeZero(numeric) \/ GreaterThan(numeric, MAX_TCP_PORT)
       THEN JsString(MSG_PORT)
       ELSE Undefined

\* ------------------------------------------------------------ install state
NoInstall == [agent |-> Null, dashboard |-> Null]

\* The entry findReleaseInfo makes of a matching release. Its revision,
\* updated and status fields are copied through and never read.
ReleaseInfo(ns) == [namespace |-> ns]

hasExistingInstall(state) == state.agent # Null \/ state.dashboard # Null

\* entry?.namespace as the operand of ||: an absent entry is falsy like ""
NamespaceOrEmpty(entry) == IF entry = Null THEN "" ELSE entry.namespace

resolveDefaultNamespace ==
  IF NamespaceOrEmpty(installState.agent) # ""
    THEN NamespaceOrEmpty(installState.agent)
  ELSE IF NamespaceOrEmpty(installState.dashboard) # ""
    THEN NamespaceOrEmpty(installState.dashboard)
  ELSE DEFAULT_NAMESPACE

\* ------------------------------------------------- command argument builder
AGENT_SERVICE_HOST == AGENT_RELEASE \o "-" \o SplitSecond(AGENT_CHART, "/")

buildAgentBaseUrl(namespace) ==
  "http://" \o AGENT_SERVICE_HOST \o "." \o namespace
    \o ".svc.cluster.local:" \o IntToString(AGENT_SERVICE_PORT)

\* buildDashboardHelmArgs appending the override for every namespace.
buildDashboardHelmArgsAlwaysOverride(namespace) ==
  << "upgrade", "--install", DASHBOARD_RELEASE, DASHBOARD_CHART, "-n", namespace,
     "--set-string", "agents[0].baseUrl=" \o buildAgentBaseUrl(namespace) >>

\* buildDashboardHelmArgs comparing with the cached default namespace
\* instead of the constant.
buildDashboardHelmArgsCachedDefault(namespace) ==
  LET args == << "upgrade", "--install", DASHBOARD_RELEASE, DASHBOARD_CHART,
                 "-n", namespace >>
  IN IF namespace # resolveDefaultNamespace
       THEN args \o << "--set-string",
                       "agents[0].baseUrl=" \o buildAgentBaseUrl(namespace) >>
       ELSE args

buildDashboardHelmArgs(namespace) ==
  LET args == << "upgrade", "--install", DASHBOARD_RELEASE, DASHBOARD_CHART,
                 "-n", namespace >>
  IN IF namespace # DEFAULT_NAMESPACE
       THEN args \o << "--set-string",
                       "agents[0].baseUrl=" \o buildAgentBaseUrl(namespace) >>
       ELSE args

\* ------------------------------------------------------------ raw inputs
Alphabet == {"a", "-", " ", "\t", "0", "1", "5", ".", "+"}

RECURSIVE Strings(_)
Strings(n) ==
  IF n = 0 THEN {""}
  ELSE LET shorter == Strings(n - 1)
       IN shorter \cup {s \o c : s \in shorter, c \in Alphabet}

\* The inputs of the repository's unit tests and the range boundaries.
SampleStrings ==
  { "clustercost", " clustercost ", "team-a", "prod namespace", "svc-clustercost",
    "svc dashboard", " svc-cluster ", "8080", " 8080 ", "99999", "abc", "-1",
    "65535", "65536", "65535.5", "80.5", "3000" }

RawStrings == Strings(MaxLen) \cup SampleStrings

RawInputs == {Undefined, Null} \cup {JsString(s) : s \in RawStrings}

NotCalled == [type |-> "notcalled"]

\* ------------------------------------------------------------ idle parts
\* Each specification drives one part of the state; the other parts rest.
PureIdle ==
  /\ rawValue = Undefined
  /\ nsResult = NotCalled
  /\ svcResult = NotCalled
  /\ portResult = NotCalled
  /\ helmArgs = NotCalled

BuilderIdle ==
  /\ heap = << >>
  /\ refs = << >>
  /\ callNs = << >>
  /\ returned = << >>
  /\ altered = {}

NoCmd == [command |-> "", args |-> << >>]

NoMenu == [options |-> << >>, initialValue |-> ""]

NotAsked == "not-asked"

\* The answer of a command that lists something: it failed, or the items.
Failed(why) == [ok |-> FALSE, why |-> why]

Listed(items) == [ok |-> TRUE, items |-> items]

\* detectInstallState has not run helm list since the menu was last shown.
NoAnswer == Failed(NotAsked)

\* The local variables of the flows, before any is assigned.
NoLocals ==
  [ contextName |-> "", contexts |-> << >>, selectedContext |-> "",
    confirmInstall |-> NotAsked, confirmReinstall |-> NotAsked,
    confirmRemoval |-> NotAsked, agentExists |-> FALSE, dashboardExists |-> FALSE,
    namespaceResponse |-> Undefined, namespace |-> "", serviceName |-> "",
    localPort |-> NaN, namespaceFound |-> NotAsked, repoExists |-> NotAsked,
    helmList |-> NoAnswer, ran |-> << >> ]

FlowIdle ==
  /\ pc = "idle"
  /\ menu = NoMenu
  /\ local = NoLocals
  /\ promptError = Undefined
  /\ missing = {}
  /\ debugStep = 0
  /\ lastCmd = NoCmd
  /\ exitCode = 0
  /\ outcome = ""
  /\ changed = FALSE

\* No child process is followed event by event.
NoChild == [role |-> "none"]

ChildIdle == child = NoChild

\* ------------------------------------------- the pure functions, one input
InitPure ==
  /\ rawValue \in RawInputs
  /\ nsResult = NotCalled
  /\ svcResult = NotCalled
  /\ portResult = NotCalled
  /\ helmArgs = NotCalled
  /\ BuilderIdle
  /\ installState = NoInstall
  /\ FlowIdle
  /\ ChildIdle

CallValidateNamespace ==
  /\ nsResult = NotCalled
  /\ nsResult' = validateNamespace(rawValue)
  /\ UNCHANGED << rawValue, svcResult, portResult, helmArgs >>
  /\ UNCHANGED << builderVars, installState, flowVars, child >>

CallValidateServiceName ==
  /\ svcResult = NotCalled
  /\ svcResult' = validateServiceName(rawValue)
  /\ UNCHANGED << rawValue, nsResult, portResult, helmArgs >>
  /\ UNCHANGED << builderVars, installState, flowVars, child >>

CallValidatePort ==
  /\ portResult = NotCalled
  /\ portResult' = validatePort(rawValue)
  /\ UNCHANGED << rawValue, nsResult, svcResult, helmArgs >>
  /\ UNCHANGED << builderVars, installState, flowVars, child >>

CallBuildDashboardHelmArgs ==
  /\ helmArgs = NotCalled
  /\ rawValue.type = "string"
  /\ helmArgs' = buildDashboardHelmArgs(rawValue.str)
  /\ UNCHANGED << rawValue, nsResult, svcResult, portResult >>
  /\ UNCHANGED << builderVars, installState, flowVars, child >>

NextPure ==
  \/ CallValidateNamespace
  \/ CallValidateServiceName
  \/ CallValidatePort
  \/ CallBuildDashboardHelmArgs

SpecPure == InitPure /\ [][NextPure]_vars

\* --------------------------------- repeated calls of buildDashboardHelmArgs
\* The namespaces helm reports releases in.
ReleaseNamespaces == {"clustercost", "team-a"}

ReleaseEntries == {Null} \cup {ReleaseInfo(ns) : ns \in ReleaseNamespaces}

InstallStates == [agent : ReleaseEntries, dashboard : ReleaseEntries]

BuilderNamespaces == {"clustercost", "team-a", " clustercost "}

\* What a caller may do to an array it was handed.
Alterations == {"push", "pop"}

Alter(arr, how) ==
  IF how = "push" THEN Append(arr, "--debug") ELSE SubSeq(arr, 1, Len(arr) - 1)

\* The array literal of buildDashboardHelmArgs allocates a new array.
NewArray(h) == Len(h) + 1

Store(h, addr, arr) ==
  IF addr = Len(h) + 1 THEN Append(h, arr) ELSE [h EXCEPT ![addr] = arr]

InitBuilder ==
  /\ PureIdle
  /\ BuilderIdle
  /\ installState = NoInstall
  /\ FlowIdle
  /\ ChildIdle

CallBuilder ==
  \E ns \in BuilderNamespaces :
    LET addr == NewArray(heap)
        args == buildDashboardHelmArgs(ns)
    IN /\ Len(refs) < MaxCalls
       /\ heap' = Store(heap, addr, args)
       /\ refs' = Append(refs, addr)
       /\ callNs' = Append(callNs, ns)
       /\ returned' = Append(returned, args)
       /\ UNCHANGED << altered, pureVars, installState, flowVars, child >>

\* The caller changes the array a call returned to it.
AlterReturned ==
  \E i \in 1..Len(refs), how \in Alterations :
    /\ i \notin altered
    /\ heap' = [heap EXCEPT ![refs[i]] = Alter(@, how)]
    /\ altered' = altered \cup {i}
    /\ UNCHANGED << refs, callNs, returned, pureVars, installState, flowVars, child >>

\* installState = await detectInstallState(), between two calls
ChangeInstallState ==
  \E st \in InstallStates :
    /\ st # installState
    /\ installState' = st
    /\ UNCHANGED << pureVars, builderVars, flowVars, child >>

NextBuilder ==
  \/ CallBuilder
  \/ AlterReturned
  \/ ChangeInstallState

SpecBuilder == InitBuilder /\ [][NextBuilder]_vars

\* ------------------------------------------------------------------ run()
Others == << pureVars, builderVars, child >>

Cmd(command, args) == [command |-> command, args |-> args]

\* What the user can type into a text prompt: every text up to MaxTyped
\* over TypedAlphabet, the texts below, and an empty submission.
TypedAlphabet == {"a", " ", "5", "."}

RECURSIVE TypedStrings(_)
TypedStrings(n) ==
  IF n = 0 THEN {""}
  ELSE LET shorter == TypedStrings(n - 1)
       IN shorter \cup {s \o c : s \in shorter, c \in TypedAlphabet}

Typed(samples) ==
  {Undefined} \cup {JsString(s) : s \in TypedStrings(MaxTyped) \cup samples}

NamespaceTexts ==
  Typed({"clustercost", " clustercost ", "team-a", "prod namespace", "\tteam-a",
         resolveDefaultNamespace})

ServiceTexts ==
  Typed({DASHBOARD_SERVICE, " svc-cluster ", "svc dashboard"})

PortTexts ==
  Typed({IntToString(DASHBOARD_LOCAL_PORT), " 8080 ", "80.5", "0", "-1", "abc",
         "65535", "65536"})

\* response || fallback for a prompt response
OrDefault(response, fallback) ==
  IF response.type # "string" \/ response.str = "" THEN fallback ELSE response.str

\* (namespaceResponse || DEFAULT_NAMESPACE) without the trim()
namespaceOfResponseUntrimmed(response) == OrDefault(response, DEFAULT_NAMESPACE)

\* (namespaceResponse || DEFAULT_NAMESPACE).trim()
namespaceOfResponse(response) == Trim(OrDefault(response, DEFAULT_NAMESPACE))

\* (serviceResponse || DASHBOARD_SERVICE).trim()
serviceNameOfResponse(response) == Trim(OrDefault(response, DASHBOARD_SERVICE))

\* Number(portResponse || DASHBOARD_LOCAL_PORT) || DASHBOARD_LOCAL_PORT
localPortOfResponse(response) ==
  LET n == IF response.type # "string" \/ response.str = ""
             THEN IntNum(DASHBOARD_LOCAL_PORT)
             ELSE StringToNumber(response.str)
  IN IF Truthy(n) THEN n ELSE IntNum(DASHBOARD_LOCAL_PORT)

\* The values of the options of buildMenuOptions, in order (the labels are
\* display text).
buildMenuOptions ==
  IF ~hasExistingInstall(installState)
    THEN << "install", "about", "exit" >>
    ELSE << "port-forward", "install", "uninstall", "debug", "about", "exit" >>

Elements(seq) == {seq[i] : i \in 1..Len(seq)}

\* run(): initialValue of the menu
menuInitialValue(options) ==
  LET preferredInitial ==
        IF hasExistingInstall(installState) THEN "port-forward" ELSE "install"
  IN IF preferredInitial \in Elements(options) THEN preferredInitial
     ELSE IF Len(options) > 0 THEN options[1]
     ELSE "install"

\* The answers of "helm list -A -o json": the command fails, its output does
\* not parse, or it lists releases.
ReleaseRecords ==
  [name : {AGENT_RELEASE, DASHBOARD_RELEASE, "other"}, namespace : ReleaseNamespaces]

RECURSIVE ReleaseListsUpTo(_)
ReleaseListsUpTo(n) ==
  IF n = 0 THEN {<< >>}
  ELSE LET shorter == ReleaseListsUpTo(n - 1)
       IN shorter \cup {Append(l, r) : l \in shorter, r \in ReleaseRecords}

ReleaseLists == ReleaseListsUpTo(MaxReleases)

HelmListAnswers ==
  {Failed("failed"), Failed("unparseable")} \cup {Listed(l) : l \in ReleaseLists}

findReleaseInfo(releases, releaseName) ==
  IF \E i \in 1..Len(releases) : releases[i].name = releaseName
    THEN LET first == CHOOSE i \in 1..Len(releases) :
                        /\ releases[i].name = releaseName
                        /\ \A j \in 1..(i - 1) : releases[j].name # releaseName
         IN ReleaseInfo(releases[first].namespace)
    ELSE Null

\* detectInstallState forgetting the cached releases when helm list fails.
detectInstallStateForgetful(answer) ==
  IF ~answer.ok THEN NoInstall
  ELSE [ agent |-> findReleaseInfo(answer.items, AGENT_RELEASE),
         dashboard |-> findReleaseInfo(answer.items, DASHBOARD_RELEASE) ]

\* detectInstallState for one answer of helm list
detectInstallState(answer) ==
  IF ~answer.ok THEN installState
  ELSE [ agent |-> findReleaseInfo(answer.items, AGENT_RELEASE),
         dashboard |-> findReleaseInfo(answer.items, DASHBOARD_RELEASE) ]

\* The commands that write to the kubeconfig, the cluster or the Helm
\* configuration: kubectl config use-context, kubectl create namespace,
\* helm repo add, helm repo update, helm upgrade --install, helm uninstall.
ChangesState(cmd) ==
  LET a == cmd.args
  IN \/ /\ cmd.command = "kubectl"
        /\ Len(a) >= 2
        /\ SubSeq(a, 1, 2) \in {<< "config", "use-context" >>, << "create", "namespace" >>}
     \/ /\ cmd.command = "helm"
        /\ Len(a) >= 2
        /\ \/ SubSeq(a, 1, 2) \in {<< "repo", "add" >>, << "repo", "update" >>,
                                   << "upgrade", "--install" >>}
           \/ a[1] = "uninstall"

Init ==
  /\ PureIdle
  /\ BuilderIdle
  /\ installState = NoInstall
  /\ pc = "which_kubectl"
  /\ menu = NoMenu
  /\ local = NoLocals
  /\ promptError = Undefined
  /\ missing = {}
  /\ debugStep = 0
  /\ lastCmd = NoCmd
  /\ exitCode = 0
  /\ outcome = ""
  /\ changed = FALSE
  /\ ChildIdle

\* A StepError (or any other error) reaches the catch of run().
Throw(kind) ==
  /\ pc' = "done"
  /\ exitCode' = 1
  /\ outcome' = kind

\* The flow returns to the loop of run(): its locals go out of scope and
\* the children it spawned have exited.
ReturnToMenu ==
  /\ pc' = "menu"
  /\ local' = NoLocals
  /\ lastCmd' = NoCmd

\* ensurePrerequisites: commandExists('kubectl')
WhichKubectl ==
  \E ok \in BOOLEAN :
    /\ pc = "which_kubectl"
    /\ lastCmd' = Cmd("which", << "kubectl" >>)
    /\ missing' = IF ok THEN {} ELSE {"kubectl"}
    /\ pc' = "which_helm"
    /\ UNCHANGED << Others, changed, installState, menu, local, promptError, debugStep,
                    exitCode, outcome >>

\* ensurePrerequisites: commandExists('helm'), then the throw on a miss
WhichHelm ==
  \E ok \in BOOLEAN :
    LET all == missing \cup (IF ok THEN {} ELSE {"helm"})
    IN /\ pc = "which_helm"
       /\ lastCmd' = Cmd("which", << "helm" >>)
       /\ missing' = all
       /\ IF all # {}
            THEN Throw("error")
            ELSE /\ pc' = "detect_startup"
                 /\ UNCHANGED << exitCode, outcome >>
       /\ UNCHANGED << Others, changed, installState, menu, local, promptError, debugStep >>

DetectPcs == {"detect_startup", "detect_after_install", "detect_after_uninstall"}

\* installState = await detectInstallState()
DetectInstallState ==
  \E answer \in HelmListAnswers :
    /\ pc \in DetectPcs
    /\ lastCmd' = Cmd("helm", << "list", "-A", "-o", "json" >>)
    /\ installState' = detectInstallState(answer)
    /\ pc' = "menu"
    /\ local' = [NoLocals EXCEPT !.helmList = answer]
    /\ UNCHANGED << Others, changed, menu, promptError, missing, debugStep, exitCode, outcome >>

\* run(): the menu is built and handed to select()
ShowMenu ==
  /\ pc = "menu"
  /\ LET options == buildMenuOptions
     IN menu' = [options |-> options, initialValue |-> menuInitialValue(options)]
  /\ pc' = "select"
  /\ local' = NoLocals
  /\ UNCHANGED << Others, changed, installState, promptError, missing, debugStep,
                  lastCmd, exitCode, outcome >>

FlowEntry(choice) ==
  CASE choice = "install" -> "install_context"
    [] choice = "port-forward" -> "pf_namespace"
    [] choice = "uninstall" -> "un_namespace"
    [] choice = "debug" -> "debug"
    [] choice = "about" -> "menu"
    [] OTHER -> "done"

\* run(): the user picks one of the options shown
MenuSelect ==
  \E choice \in Elements(menu.options) :
    /\ pc = "select"
    /\ pc' = FlowEntry(choice)
    /\ outcome' = IF FlowEntry(choice) = "done" THEN "outro" ELSE outcome
    /\ UNCHANGED << Others, changed, installState, menu, local, promptError, missing,
                    debugStep, lastCmd, exitCode >>

TextPromptPcs == {"install_namespace", "pf_namespace", "pf_service", "pf_port",
                  "un_namespace"}

PromptPcs == TextPromptPcs \cup {"select", "install_confirm", "install_select_context",
                                 "install_confirm_reinstall", "un_confirm"}

\* enforceNotCancelled: the user cancels the prompt and run() reports
\* 'No changes were made.'
CancelPrompt ==
  /\ pc \in PromptPcs
  /\ pc' = "done"
  /\ outcome' = "cancelled"
  /\ promptError' = Undefined
  /\ UNCHANGED << Others, changed, installState, menu, local, missing, debugStep, lastCmd,
                  exitCode >>

\* The validator and the texts of the text prompt at a position.
ValidatorAt(position, text) ==
  CASE position = "pf_service" -> validateServiceName(text)
    [] position = "pf_port" -> validatePort(text)
    [] OTHER -> validateNamespace(text)

TextsAt(position) ==
  CASE position = "pf_service" -> ServiceTexts
    [] position = "pf_port" -> PortTexts
    [] OTHER -> NamespaceTexts

\* text({validate}): a value the validator rejects is not submitted; the
\* prompt shows the message and waits.
RejectText ==
  \E text \in TextsAt(pc) :
    /\ pc \in TextPromptPcs
    /\ ValidatorAt(pc, text) # Undefined
    /\ promptError' = ValidatorAt(pc, text)
    /\ UNCHANGED << Others, changed, installState, pc, menu, local, missing, debugStep,
                    lastCmd, exitCode, outcome >>

\* ------------------------------------------------------- handleInstallFlow
Contexts == {"ctx-a", "ctx-b"}

\* The answers of "kubectl config get-contexts -o name", split into names.
ContextLists ==
  {<< >>} \cup {<< c >> : c \in Contexts}
    \cup {p \in Contexts \X Contexts : p[1] # p[2]}

\* handleInstallFlow: kubectl config current-context
InstallCurrentContext ==
  \E answer \in {Failed("failed")} \cup {Listed(c) : c \in {""} \cup Contexts} :
    /\ pc = "install_context"
    /\ lastCmd' = Cmd("kubectl", << "config", "current-context" >>)
    /\ IF ~answer.ok
         THEN /\ Throw("step-error")
              /\ UNCHANGED local
         ELSE /\ local' = [local EXCEPT !.contextName =
                             IF answer.items = "" THEN "unknown" ELSE answer.items]
              /\ pc' = IF hasExistingInstall(installState)
                         THEN "install_namespace"
                         ELSE "install_confirm"
              /\ UNCHANGED << exitCode, outcome >>
    /\ UNCHANGED << Others, changed, installState, menu, promptError, missing, debugStep >>

Answer(yes) == IF yes THEN "yes" ELSE "no"

\* handleInstallFlow: confirm 'Install ClusterCost here?'
ConfirmInstall ==
  \E yes \in BOOLEAN :
    /\ pc = "install_confirm"
    /\ local' = [local EXCEPT !.confirmInstall = Answer(yes)]
    /\ pc' = IF yes THEN "install_namespace" ELSE "install_list_contexts"
    /\ UNCHANGED << Others, changed, installState, menu, promptError, missing, debugStep,
                    lastCmd, exitCode, outcome >>

\* promptForContextSelection: kubectl config get-contexts -o name
ListContexts ==
  \E answer \in {Failed("failed")} \cup {Listed(l) : l \in ContextLists} :
    /\ pc = "install_list_contexts"
    /\ lastCmd' = Cmd("kubectl", << "config", "get-contexts", "-o", "name" >>)
    /\ IF ~answer.ok \/ answer.items = << >>
         THEN /\ Throw("step-error")
              /\ UNCHANGED local
         ELSE /\ local' = [local EXCEPT !.contexts = answer.items]
              /\ pc' = "install_select_context"
              /\ UNCHANGED << exitCode, outcome >>
    /\ UNCHANGED << Others, changed, installState, menu, promptError, missing, debugStep >>

\* promptForContextSelection: select(), then the branch on the selection
SelectContext ==
  \E ctx \in Elements(local.contexts) :
    /\ pc = "install_select_context"
    /\ IF ctx # local.contextName
         THEN /\ local' = [local EXCEPT !.selectedContext = ctx]
              /\ pc' = "install_switch_context"
         ELSE /\ local' = [local EXCEPT !.selectedContext = ctx, !.contextName = ctx]
              /\ pc' = "install_namespace"
    /\ UNCHANGED << Others, changed, installState, menu, promptError, missing, debugStep,
                    lastCmd, exitCode, outcome >>

\* switchKubectlContext: kubectl config use-context
SwitchContext ==
  \E ok \in BOOLEAN :
    /\ pc = "install_switch_context"
    /\ lastCmd' = Cmd("kubectl", << "config", "use-context", local.selectedContext >>)
    /\ changed' = (changed \/ ChangesState(lastCmd'))
    /\ IF ok
         THEN /\ local' = [local EXCEPT !.contextName = local.selectedContext]
              /\ pc' = "install_namespace"
              /\ UNCHANGED << exitCode, outcome >>
         ELSE /\ Throw("step-error")
              /\ UNCHANGED local
    /\ UNCHANGED << Others, installState, menu, promptError, missing, debugStep >>

AfterNamespace(position) ==
  CASE position = "install_namespace" -> "install_status_agent"
    [] position = "pf_namespace" -> "pf_service"
    [] OTHER -> "un_confirm"

\* The namespace prompt of the three flows: a value validateNamespace
\* accepts is submitted.
SubmitNamespace ==
  \E text \in NamespaceTexts :
    /\ pc \in {"install_namespace", "pf_namespace", "un_namespace"}
    /\ validateNamespace(text) = Undefined
    /\ local' = [local EXCEPT !.namespaceResponse = text,
                              !.namespace = namespaceOfResponse(text)]
    /\ pc' = AfterNamespace(pc)
    /\ promptError' = Undefined
    /\ UNCHANGED << Others, changed, installState, menu, missing, debugStep, lastCmd,
                    exitCode, outcome >>

\* ensureFreshInstallAllowed: helmReleaseExists(AGENT_RELEASE, namespace)
InstallStatusAgent ==
  \E exists \in BOOLEAN :
    /\ pc = "install_status_agent"
    /\ lastCmd' = Cmd("helm", << "status", AGENT_RELEASE, "-n", local.namespace >>)
    /\ local' = [local EXCEPT !.agentExists = exists]
    /\ pc' = "install_status_dashboard"
    /\ UNCHANGED << Others, changed, installState, menu, promptError, missing, debugStep,
                    exitCode, outcome >>

\* ensureFreshInstallAllowed: helmReleaseExists(DASHBOARD_RELEASE, namespace),
\* then the early return when neither release exists
InstallStatusDashboard ==
  \E exists \in BOOLEAN :
    /\ pc = "install_status_dashboard"
    /\ lastCmd' = Cmd("helm", << "status", DASHBOARD_RELEASE, "-n", local.namespace >>)
    /\ local' = [local EXCEPT !.dashboardExists = exists]
    /\ pc' = IF ~local.agentExists /\ ~exists
               THEN "install_namespace_exists"
               ELSE "install_confirm_reinstall"
    /\ UNCHANGED << Others, changed, installState, menu, promptError, missing, debugStep,
                    exitCode, outcome >>

\* ensureFreshInstallAllowed returning true whatever the answer.
reinstallAllowedAlways(answer) == TRUE

\* ensureFreshInstallAllowed: what it returns for the answer to
\* 'Reinstall and upgrade the existing release?'
reinstallAllowed(answer) == answer = "yes"

\* ensureFreshInstallAllowed: confirm, and handleInstallFlow's return when it
\* is false
ConfirmReinstall ==
  \E yes \in BOOLEAN :
    /\ pc = "install_confirm_reinstall"
    /\ IF reinstallAllowed(Answer(yes))
         THEN /\ local' = [local EXCEPT !.confirmReinstall = Answer(yes)]
              /\ pc' = "install_namespace_exists"
              /\ UNCHANGED lastCmd
         ELSE ReturnToMenu
    /\ UNCHANGED << Others, changed, installState, menu, promptError, missing, debugStep,
                    exitCode, outcome >>

\* runStep carrying on with the flow after a failed command.
StepIgnoringFailure(position, cmd, next) ==
  \E ok \in BOOLEAN :
    /\ pc = position
    /\ lastCmd' = cmd
    /\ changed' = (changed \/ ChangesState(cmd))
    /\ local' = [local EXCEPT !.ran = Append(@, [cmd |-> cmd, ok |-> ok])]
    /\ pc' = next
    /\ UNCHANGED << Others, installState, menu, promptError, missing, debugStep,
                    exitCode, outcome >>

\* A command whose failure runStep turns into a StepError.  local.ran is
\* history: the commands the flow has run this way, each with its result.
Step(position, cmd, next) ==
  \E ok \in BOOLEAN :
    /\ pc = position
    /\ lastCmd' = cmd
    /\ changed' = (changed \/ ChangesState(cmd))
    /\ local' = [local EXCEPT !.ran = Append(@, [cmd |-> cmd, ok |-> ok])]
    /\ IF ok
         THEN /\ pc' = next
              /\ UNCHANGED << exitCode, outcome >>
         ELSE Throw("step-error")
    /\ UNCHANGED << Others, installState, menu, promptError, missing, debugStep >>

\* handleInstallFlow: namespaceExists(namespace)
NamespaceExists ==
  \E exists \in BOOLEAN :
    /\ pc = "install_namespace_exists"
    /\ lastCmd' = Cmd("kubectl", << "get", "namespace", local.namespace >>)
    /\ local' = [local EXCEPT !.namespaceFound = Answer(exists)]
    /\ pc' = IF exists THEN "install_repo_list" ELSE "install_create_namespace"
    /\ UNCHANGED << Others, changed, installState, menu, promptError, missing,
                    debugStep, exitCode, outcome >>

CreateNamespace ==
  Step("install_create_namespace",
       Cmd("kubectl", << "create", "namespace", local.namespace >>),
       "install_repo_list")

\* The answers of "helm repo list -o json": failure, no output, output that
\* does not parse, a value that is no array, or the names of the repositories.
RepoAnswers ==
  {Failed(why) : why \in {"failed", "empty", "unparseable", "not-array"}}
    \cup {Listed(l) : l \in {<< >>, << "stable" >>, << HELM_REPO_NAME >>,
                             << "stable", HELM_REPO_NAME >>}}

helmRepoExists(answer, name) == answer.ok /\ name \in Elements(answer.items)

\* prepareHelmRepository: helmRepoExists(HELM_REPO_NAME)
HelmRepoList ==
  \E answer \in RepoAnswers :
    /\ pc = "install_repo_list"
    /\ lastCmd' = Cmd("helm", << "repo", "list", "-o", "json" >>)
    /\ local' = [local EXCEPT !.repoExists =
                        Answer(helmRepoExists(answer, HELM_REPO_NAME))]
    /\ pc' = IF helmRepoExists(answer, HELM_REPO_NAME)
               THEN "install_repo_update"
               ELSE "install_repo_add"
    /\ UNCHANGED << Others, changed, installState, menu, promptError, missing,
                    debugStep, exitCode, outcome >>

HelmRepoAdd ==
  Step("install_repo_add",
       Cmd("helm", << "repo", "add", HELM_REPO_NAME, HELM_REPO_URL >>),
       "install_repo_update")

HelmRepoUpdate ==
  Step("install_repo_update", Cmd("helm", << "repo", "update" >>),
       "install_deploy_agent")

deployAgentArgs(ns) ==
  << "upgrade", "--install", AGENT_RELEASE, AGENT_CHART, "-n", ns,
     "--create-namespace" >>

DeployAgent ==
  Step("install_deploy_agent", Cmd("helm", deployAgentArgs(local.namespace)),
       "install_deploy_dashboard")

\* deployDashboard, then displayInstallSummary
DeployDashboard ==
  Step("install_deploy_dashboard",
       Cmd("helm", buildDashboardHelmArgs(local.namespace)),
       "detect_after_install")

\* --------------------------------------------------- handlePortForwardFlow
\* The service prompt: a value validateServiceName accepts is submitted.
SubmitService ==
  \E text \in ServiceTexts :
    /\ pc = "pf_service"
    /\ validateServiceName(text) = Undefined
    /\ local' = [local EXCEPT !.serviceName = serviceNameOfResponse(text)]
    /\ pc' = "pf_port"
    /\ promptError' = Undefined
    /\ UNCHANGED << Others, changed, installState, menu, missing, debugStep, lastCmd,
                    exitCode, outcome >>

\* The port prompt: a value validatePort accepts is submitted.
SubmitPort ==
  \E text \in PortTexts :
    /\ pc = "pf_port"
    /\ validatePort(text) = Undefined
    /\ local' = [local EXCEPT !.localPort = localPortOfResponse(text)]
    /\ pc' = "pf_spawn"
    /\ promptError' = Undefined
    /\ UNCHANGED << Others, changed, installState, menu, missing, debugStep, lastCmd,
                    exitCode, outcome >>

portForwardArgs(ns, service, port) ==
  << "port-forward", "-n", ns, "svc/" \o service,
     NumberToString(port) \o ":" \o IntToString(DASHBOARD_TARGET_PORT) >>

\* establishPortForward: kubectl port-forward is spawned
EstablishPortForward ==
  /\ pc = "pf_spawn"
  /\ lastCmd' = Cmd("kubectl",
                    portForwardArgs(local.namespace, local.serviceName, local.localPort))
  /\ pc' = "pf_running"
  /\ UNCHANGED << Others, changed, installState, menu, local, promptError, missing,
                  debugStep, exitCode, outcome >>

\* establishPortForward: exitPromise settles
PortForwardEnds ==
  \E resolved \in BOOLEAN :
    /\ pc = "pf_running"
    /\ IF resolved
         THEN /\ ReturnToMenu
              /\ UNCHANGED << exitCode, outcome >>
         ELSE /\ Throw("step-error")
              /\ UNCHANGED << local, lastCmd >>
    /\ UNCHANGED << Others, changed, installState, menu, promptError, missing, debugStep >>

\* ----------------------------------------------------- handleUninstallFlow
\* handleUninstallFlow: confirm 'Remove ClusterCost agent and dashboard?'
ConfirmRemoval ==
  \E yes \in BOOLEAN :
    /\ pc = "un_confirm"
    /\ IF yes
         THEN /\ local' = [local EXCEPT !.confirmRemoval = "yes"]
              /\ pc' = "un_status_agent"
              /\ UNCHANGED lastCmd
         ELSE ReturnToMenu
    /\ UNCHANGED << Others, changed, installState, menu, promptError, missing, debugStep,
                    exitCode, outcome >>

ReleaseAt(position) ==
  IF position \in {"un_status_agent", "un_uninstall_agent"}
    THEN AGENT_RELEASE
    ELSE DASHBOARD_RELEASE

AfterUninstall(position) ==
  IF position \in {"un_status_agent", "un_uninstall_agent"}
    THEN "un_status_dashboard"
    ELSE "detect_after_uninstall"

\* uninstallRelease: helmReleaseExists(release, namespace)
UninstallStatus ==
  \E exists \in BOOLEAN :
    /\ pc \in {"un_status_agent", "un_status_dashboard"}
    /\ lastCmd' = Cmd("helm", << "status", ReleaseAt(pc), "-n", local.namespace >>)
    /\ pc' = IF ~exists THEN AfterUninstall(pc)
             ELSE IF pc = "un_status_agent" THEN "un_uninstall_agent"
             ELSE "un_uninstall_dashboard"
    /\ UNCHANGED << Others, changed, installState, menu, local, promptError, missing,
                    debugStep, exitCode, outcome >>

\* uninstallRelease: helm uninstall
UninstallRelease ==
  \E position \in {"un_uninstall_agent", "un_uninstall_dashboard"} :
    Step(position,
         Cmd("helm", << "uninstall", ReleaseAt(position), "-n", local.namespace >>),
         AfterUninstall(position))

\* ------------------------------------------------------------ showDebugInfo
DebugCommands ==
  << Cmd("kubectl", << "config", "current-context" >>),
     Cmd("kubectl", << "get", "ns" >>),
     Cmd("helm", << "version" >>),
     Cmd("helm", << "list", "-n", DEFAULT_NAMESPACE >>) >>

\* showDebugInfo: the next safeCommandOutput, which never throws
ShowDebugInfo ==
  /\ pc = "debug"
  /\ lastCmd' = DebugCommands[debugStep + 1]
  /\ debugStep' = debugStep + 1
  /\ pc' = IF debugStep + 1 = Len(DebugCommands) THEN "debug_done" ELSE pc
  /\ UNCHANGED << Others, changed, installState, menu, local, promptError, missing,
                  exitCode, outcome >>

\* showDebugInfo returns
DebugReturns ==
  /\ pc = "debug_done"
  /\ debugStep' = 0
  /\ ReturnToMenu
  /\ UNCHANGED << Others, changed, installState, menu, promptError, missing, exitCode, outcome >>

Next ==
  \/ WhichKubectl
  \/ WhichHelm
  \/ DetectInstallState
  \/ ShowMenu
  \/ MenuSelect
  \/ CancelPrompt
  \/ RejectText
  \/ InstallCurrentContext
  \/ ConfirmInstall
  \/ ListContexts
  \/ SelectContext
  \/ SwitchContext
  \/ SubmitNamespace
  \/ InstallStatusAgent
  \/ InstallStatusDashboard
  \/ ConfirmReinstall
  \/ NamespaceExists
  \/ CreateNamespace
  \/ HelmRepoList
  \/ HelmRepoAdd
  \/ HelmRepoUpdate
  \/ DeployAgent
  \/ DeployDashboard
  \/ SubmitService
  \/ SubmitPort
  \/ EstablishPortForward
  \/ PortForwardEnds
  \/ ConfirmRemoval
  \/ UninstallStatus
  \/ UninstallRelease
  \/ ShowDebugInfo
  \/ DebugReturns

Spec == Init /\ [][Next]_vars

\* -------------------------------------------------------- runShellCommand
\* One call of runShellCommand, followed through the events of its child.
\* The promise is settled by the first resolve or reject; later ones are
\* ignored.
Settle(promise, settled) ==
  IF promise.state = "pending" THEN settled ELSE promise

\* What a child writes in one 'data' event.
ShellChunks == {"a", " "}

\* The error Node emits when the command cannot be started; it is handed to
\* reject as it is.
SpawnError == [name |-> "Error", syscall |-> "spawn"]

\* The rest of the state, which a child's events leave alone.
Rest == << pureVars, builderVars, installState, flowVars >>

InitShell ==
  /\ PureIdle
  /\ BuilderIdle
  /\ installState = NoInstall
  /\ FlowIdle
  /\ child = [ role |-> "runShellCommand", stdout |-> "", stderr |-> "",
               chunks |-> 0, errored |-> FALSE, closed |-> << >>,
               promise |-> [state |-> "pending"] ]

\* child.stdout.on('data')
ShellStdout ==
  \E data \in ShellChunks :
    /\ child.role = "runShellCommand"
    /\ ~child.errored /\ child.closed = << >>
    /\ child.chunks < MaxChunks
    /\ child' = [child EXCEPT !.stdout = @ \o data, !.chunks = @ + 1]
    /\ UNCHANGED Rest

\* child.stderr.on('data')
ShellStderr ==
  \E data \in ShellChunks :
    /\ child.role = "runShellCommand"
    /\ ~child.errored /\ child.closed = << >>
    /\ child.chunks < MaxChunks
    /\ child' = [child EXCEPT !.stderr = @ \o data, !.chunks = @ + 1]
    /\ UNCHANGED Rest

\* child.on('error'): the command could not be started, so nothing was read
ShellError ==
  /\ child.role = "runShellCommand"
  /\ ~child.errored /\ child.closed = << >>
  /\ child.chunks = 0
  /\ child' = [child EXCEPT
       !.errored = TRUE,
       !.promise = Settle(@, [state |-> "rejected", reason |-> SpawnError])]
  /\ UNCHANGED Rest

\* child.on('close'): after 'error' the code is the negative errno of the
\* failed spawn, otherwise the exit code of the command.  The message and
\* the command text of the error it builds are left out.
ShellClose ==
  \E code \in (IF child.errored THEN {-2} ELSE {0, 1}) :
    /\ child.role = "runShellCommand"
    /\ child.closed = << >>
    /\ child' = [child EXCEPT
         !.closed = << code >>,
         !.promise = Settle(@,
           IF code = 0
             THEN [ state |-> "fulfilled",
                    value |-> [ stdout |-> Trim(child.stdout),
                                stderr |-> Trim(child.stderr), code |-> code ] ]
             ELSE [ state |-> "rejected",
                    reason |-> [ name |-> "Error", code |-> code,
                                 stdout |-> Trim(child.stdout),
                                 stderr |-> Trim(child.stderr) ] ])]
    /\ UNCHANGED Rest

NextShell ==
  \/ ShellStdout
  \/ ShellStderr
  \/ ShellError
  \/ ShellClose

SpecShell == InitShell /\ [][NextShell]_vars

\* --------------------------------------------------- establishPortForward
\* One call of establishPortForward, followed through the events of its
\* child.  spinner lists the calls that finalise forwardSpinner, in order.
\* The echo of the child's output and the command text of the errors are
\* left out.
\* String.prototype.toLowerCase, on the letters A to Z
RECURSIVE ToLowerCase(_)
ToLowerCase(s) ==
  LET upper == "ABCDEFGHIJKLMNOPQRSTUVWXYZ"
      lower == "abcdefghijklmnopqrstuvwxyz"
      c == CharAt(s, 1)
  IN IF Len(s) = 0 THEN ""
     ELSE (IF \E k \in 1..26 : CharAt(upper, k) = c
             THEN CharAt(lower, CHOOSE k \in 1..26 : CharAt(upper, k) = c)
             ELSE c) \o ToLowerCase(SubSeq(s, 2, Len(s)))

\* String.prototype.includes
Includes(s, sub) ==
  \E i \in 1..(Len(s) - Len(sub) + 1) : SubSeq(s, i, i + Len(sub) - 1) = sub

\* What kubectl port-forward writes in one 'data' event.
ForwardChunks ==
  [ stdout |-> {"Forwarding from 127.0.0.1:3000 -> 9090 ", "Handling connection "},
    stderr |-> {"error: lost connection to pod "} ]

\* How the child can end once started: an exit code, or a signal and no
\* code.
ForwardExits ==
  {[code |-> 0, signal |-> ""], [code |-> 1, signal |-> ""],
   [signal |-> "SIGINT"], [signal |-> "SIGKILL"]}

StepErrorOf(message) ==
  [ state |-> "rejected",
    reason |-> [ name |-> "StepError", step |-> "Open dashboard port-forward",
                 message |-> message,
                 stderr |-> IF Trim(child.stderr) # "" THEN Trim(child.stderr)
                            ELSE Trim(child.stdout) ] ]

InitForward ==
  /\ PureIdle
  /\ BuilderIdle
  /\ installState = NoInstall
  /\ FlowIdle
  /\ child = [ role |-> "establishPortForward", stdout |-> "", stderr |-> "",
               connected |-> FALSE, spinner |-> << >>, chunks |-> 0,
               errored |-> FALSE, closed |-> << >>,
               promise |-> [state |-> "pending"] ]

\* child.stdout.on('data')
ForwardStdout ==
  \E text \in ForwardChunks.stdout :
    LET connects == ~child.connected /\ Includes(ToLowerCase(text), "forwarding from")
    IN /\ child.role = "establishPortForward"
       /\ ~child.errored /\ child.closed = << >>
       /\ child.chunks < MaxChunks
       /\ child' = [child EXCEPT
            !.stdout = @ \o text,
            !.chunks = @ + 1,
            !.connected = @ \/ connects,
            !.spinner = IF connects THEN Append(@, "succeed") ELSE @]
       /\ UNCHANGED Rest

\* child.stderr.on('data')
ForwardStderr ==
  \E text \in ForwardChunks.stderr :
    /\ child.role = "establishPortForward"
    /\ ~child.errored /\ child.closed = << >>
    /\ child.chunks < MaxChunks
    /\ child' = [child EXCEPT !.stderr = @ \o text, !.chunks = @ + 1]
    /\ UNCHANGED Rest

\* child.on('error'): kubectl could not be started, so nothing was read
ForwardError ==
  /\ child.role = "establishPortForward"
  /\ ~child.errored /\ child.closed = << >>
  /\ child.chunks = 0
  /\ child' = [child EXCEPT
       !.errored = TRUE,
       !.spinner = IF ~child.connected THEN Append(@, "fail") ELSE @,
       !.promise = Settle(@, [ state |-> "rejected",
                               reason |-> [ name |-> "StepError",
                                            step |-> "Open dashboard port-forward",
                                            commandError |-> SpawnError ] ])]
  /\ UNCHANGED Rest

\* child.on('close'): after 'error' the code is the negative errno of the
\* failed spawn
ForwardClose ==
  \E exit \in (IF child.errored THEN {[code |-> -2, signal |-> ""]} ELSE ForwardExits) :
    /\ child.role = "establishPortForward"
    /\ child.closed = << >>
    /\ child' = [child EXCEPT
         !.closed = << exit >>,
         !.spinner = IF ~child.connected THEN Append(@, "fail") ELSE @,
         !.promise = Settle(@,
           IF ~child.connected
             THEN StepErrorOf("kubectl port-forward exited early")
           ELSE IF exit.signal = "SIGINT" \/ ("code" \in DOMAIN exit /\ exit.code = 0)
             THEN [state |-> "fulfilled"]
           ELSE StepErrorOf("kubectl port-forward exited unexpectedly"))]
    /\ UNCHANGED Rest

NextForward ==
  \/ ForwardStdout
  \/ ForwardStderr
  \/ ForwardError
  \/ ForwardClose

SpecForward == InitForward /\ [][NextForward]_vars

\* ------------------------------------------------------------------ claims
SixTokens(ns) ==
  << "upgrade", "--install", "clustercost-dashboard",
     "clustercost/clustercost-dashboard", "-n", ns >>

OverrideToken(ns) ==
  "agents[0].baseUrl=http://clustercost-agent-clustercost-agent-k8s." \o ns
    \o ".svc.cluster.local:8080"

Tokens(args) == {args[i] : i \in 1..Len(args)}

\* C1: buildDashboardHelmArgs(ns) is the six fixed tokens ending in ns when ns
\* is exactly "clustercost"; for every other ns it is those six tokens followed
\* by "--set-string" and the agent base URL override for ns; "--set-string" is
\* among the tokens exactly when ns differs from "clustercost".
C1_BuilderOutput ==
  helmArgs # NotCalled =>
    LET ns == rawValue.str
    IN /\ ns = "clustercost" => helmArgs = SixTokens(ns)
       /\ ns # "clustercost" =>
            helmArgs = SixTokens(ns) \o << "--set-string", OverrideToken(ns) >>
       /\ ("--set-string" \in Tokens(helmArgs)) <=> (ns # "clustercost")

\* The builder has run on the default namespace surrounded by spaces, which
\* is not the default by exact equality.
C1_Witness ==
  /\ helmArgs # NotCalled
  /\ rawValue = JsString(" clustercost ")
  /\ Len(helmArgs) = 8

AllWhiteSpace(s) == \A i \in 1..Len(s) : IsWhiteSpace(CharAt(s, i))

\* A white-space character with a non-white-space character somewhere before
\* it and somewhere after it.
InteriorWhiteSpace(s) ==
  \E i, j, k \in 1..Len(s) :
    /\ i < j /\ j < k
    /\ ~IsWhiteSpace(CharAt(s, i))
    /\ IsWhiteSpace(CharAt(s, j))
    /\ ~IsWhiteSpace(CharAt(s, k))

Absent(v) == v.type \in {"undefined", "null"}

\* The trimmed text parses as an integer-valued number in 1..65535.
IsPortText(s) ==
  LET n == StringToNumber(s)
  IN ~n.nan /\ ~n.neg /\ n.frac = "" /\ n.int >= 1 /\ n.int <= 65535

\* C2: validatePort returns no message exactly for the strings that, trimmed,
\* parse as an integer-valued number in 1..65535, and the port message for
\* every other input.
C2_PortAcceptsExactlyIntegers ==
  portResult # NotCalled =>
    /\ (portResult = Undefined) <=> (rawValue.type = "string" /\ IsPortText(rawValue.str))
    /\ portResult # Undefined =>
         portResult = JsString("Enter a valid TCP port (1-65535).")

\* C3: validateNamespace returns the empty message for an absent, empty or
\* white-space-only value; otherwise the spaces message when white space is
\* left inside the trimmed value; otherwise no message.
C3_NamespaceRules ==
  nsResult # NotCalled =>
    IF Absent(rawValue) \/ AllWhiteSpace(rawValue.str)
      THEN nsResult = JsString("Namespace cannot be empty.")
    ELSE IF InteriorWhiteSpace(rawValue.str)
      THEN nsResult = JsString("Namespace cannot contain spaces.")
    ELSE nsResult = Undefined

\* A value with white space around it and none inside has been accepted.
C3_Witness ==
  /\ nsResult = Undefined
  /\ rawValue.type = "string"
  /\ Len(rawValue.str) > 0
  /\ IsWhiteSpace(CharAt(rawValue.str, 1))

\* C4: on every input validateServiceName answers as validateNamespace does,
\* message for message: valid with valid, "Service name is required." with
\* "Namespace cannot be empty.", "Service name cannot contain spaces." with
\* "Namespace cannot contain spaces.".
C4_ServiceNameLikeNamespace ==
  (nsResult # NotCalled /\ svcResult # NotCalled) =>
    /\ (svcResult = Undefined) <=> (nsResult = Undefined)
    /\ (svcResult = JsString("Service name is required."))
         <=> (nsResult = JsString("Namespace cannot be empty."))
    /\ (svcResult = JsString("Service name cannot contain spaces."))
         <=> (nsResult = JsString("Namespace cannot contain spaces."))

\* Both validators have rejected a value for white space inside it.
C4_Witness ==
  /\ nsResult = JsString("Namespace cannot contain spaces.")
  /\ svcResult = JsString("Service name cannot contain spaces.")

IsValidationResult(r) ==
  \/ r = Undefined
  \/ (r.type = "string" /\ Len(r.str) > 0)

\* C5: each validator returns on every string and every absent value, and
\* what it returns is no value or a non-empty message; it never throws.
C5_ValidatorsTotal ==
  /\ nsResult # NotCalled => IsValidationResult(nsResult)
  /\ svcResult # NotCalled => IsValidationResult(svcResult)
  /\ portResult # NotCalled => IsValidationResult(portResult)

\* All three validators have returned on an absent value.
C5_Witness ==
  /\ Absent(rawValue)
  /\ nsResult # NotCalled
  /\ svcResult # NotCalled
  /\ portResult # NotCalled

PortForwardSpawned == lastCmd.command = "kubectl" /\ lastCmd.args[1] = "port-forward"

\* C6: the local port of the spawned "kubectl port-forward" is an integer
\* in 1..65535.
C6_LocalPortIsTcpPort ==
  (pc = "pf_running" /\ PortForwardSpawned) =>
    LET port == local.localPort
    IN /\ ~port.nan /\ ~port.neg /\ port.frac = ""
       /\ port.int >= 1 /\ port.int <= 65535
       /\ lastCmd.args[5] = IntToString(port.int) \o ":9090"

\* Non-empty with no white-space character anywhere.
CleanName(s) == Len(s) > 0 /\ \A i \in 1..Len(s) : ~IsWhiteSpace(CharAt(s, i))

\* The namespaces in an argument list: what follows "-n", and the operand of
\* "get namespace" and "create namespace".
NamespacesIn(args) ==
  {args[i + 1] : i \in {j \in 1..(Len(args) - 1) : args[j] = "-n"}}
    \cup (IF Len(args) = 3 /\ args[1] \in {"get", "create"} /\ args[2] = "namespace"
            THEN {args[3]}
            ELSE {})

\* The service names in an argument list: the operand "svc/<name>".
ServicesIn(args) ==
  {SubSeq(args[i], 5, Len(args[i])) :
     i \in {j \in 1..Len(args) : Len(args[j]) >= 4 /\ SubSeq(args[j], 1, 4) = "svc/"}}

DashboardDeploySpawned ==
  /\ lastCmd.command = "helm"
  /\ Len(lastCmd.args) >= 6
  /\ lastCmd.args[1] = "upgrade"
  /\ lastCmd.args[3] = "clustercost-dashboard"

\* C7: every namespace and service name in the argument list of a spawned
\* kubectl or helm command is non-empty and free of white space, and the
\* default namespace typed with spaces around it reaches the dashboard
\* builder as exactly "clustercost" (no override is appended).
C7_SpawnedNamesClean ==
  /\ \A ns \in NamespacesIn(lastCmd.args) : CleanName(ns)
  /\ \A svc \in ServicesIn(lastCmd.args) : CleanName(svc)
  /\ (DashboardDeploySpawned /\ local.namespaceResponse = JsString(" clustercost "))
       => lastCmd.args = SixTokens("clustercost")

\* The dashboard has been deployed for a namespace typed with spaces around it.
C7_Witness ==
  /\ DashboardDeploySpawned
  /\ local.namespaceResponse = JsString(" clustercost ")
  /\ local.namespace = "clustercost"

\* C9: whenever the main menu is shown it offers the three actions of the
\* README: install, port-forward and debug.
C9_MenuOffersReadmeActions ==
  pc = "select" => {"install", "port-forward", "debug"} \subseteq Elements(menu.options)

DeploySpawned ==
  /\ lastCmd.command = "helm"
  /\ Len(lastCmd.args) >= 6
  /\ lastCmd.args[1] = "upgrade"
  /\ lastCmd.args[2] = "--install"

ShellReport(code) ==
  [stdout |-> Trim(child.stdout), stderr |-> Trim(child.stderr), code |-> code]

HasReport(r, code) ==
  /\ {"code", "stdout", "stderr"} \subseteq DOMAIN r
  /\ [f \in {"code", "stdout", "stderr"} |-> r[f]] = ShellReport(code)

C11_OneStructuredOutcome ==
  child.role = "runShellCommand" =>
    /\ child.closed # << >> => child.promise.state # "pending"
    /\ child.closed # << >> =>
         (child.promise.state = "fulfilled" <=> child.closed[1] = 0)
    /\ child.promise.state = "fulfilled" =>
         child.closed # << >> /\ HasReport(child.promise.value, child.closed[1])
    /\ child.promise.state = "rejected" /\ child.closed # << >> =>
         HasReport(child.promise.reason, child.closed[1])
    /\ child.promise.state = "rejected" =>
         {"code", "stdout", "stderr"} \subseteq DOMAIN child.promise.reason

\* C12: when run() ends because a prompt was cancelled (it reports
\* 'No changes were made.' and leaves the exit code alone), no command that
\* writes (use-context, create namespace, repo add, repo update,
\* upgrade --install, uninstall) has been run earlier in that run.
C12_CancelMeansNoChanges ==
  (pc = "done" /\ outcome = "cancelled") => (exitCode = 0 /\ ~changed)

\* C13: the install flow runs create namespace (only when the namespace was
\* not found), helm repo add (only when the repository was not found), helm
\* repo update, deploy agent and deploy dashboard in this order, each at most
\* once and only after every earlier one succeeded; a failed step is the last
\* thing the run does: no retry, no later step, no helm list to refresh the
\* cache, no menu, and the exit code is 1.
InstallOrder ==
  << "create-namespace", "repo-add", "repo-update", "deploy-agent",
     "deploy-dashboard" >>

StepName(cmd) ==
  LET a == cmd.args
  IN CASE cmd.command = "kubectl" /\ SubSeq(a, 1, 2) = << "create", "namespace" >>
            -> "create-namespace"
       [] cmd.command = "helm" /\ SubSeq(a, 1, 2) = << "repo", "add" >> -> "repo-add"
       [] cmd.command = "helm" /\ SubSeq(a, 1, 2) = << "repo", "update" >>
            -> "repo-update"
       [] cmd.command = "helm" /\ SubSeq(a, 1, 3) = << "upgrade", "--install", AGENT_RELEASE >>
            -> "deploy-agent"
       [] cmd.command = "helm"
            /\ SubSeq(a, 1, 3) = << "upgrade", "--install", DASHBOARD_RELEASE >>
            -> "deploy-dashboard"
       [] OTHER -> "other"

Rank(name) == CHOOSE k \in 1..Len(InstallOrder) : InstallOrder[k] = name

\* The install steps run so far by the flow in progress, by name.
InstallRan ==
  IF local.ran # << >> /\ StepName(local.ran[1].cmd) \in Elements(InstallOrder)
    THEN [i \in 1..Len(local.ran) |-> StepName(local.ran[i].cmd)]
    ELSE << >>

C13_StepsInOrder ==
  LET names == InstallRan
      n == Len(names)
  IN n > 0 =>
       /\ \A i \in 1..n : names[i] \in Elements(InstallOrder)
       /\ \A i, j \in 1..n : i < j => Rank(names[i]) < Rank(names[j])
       /\ \A i \in 1..(n - 1) : local.ran[i].ok
       /\ ("create-namespace" \in Elements(names)) <=> (local.namespaceFound = "no")
       /\ Rank(names[n]) >= 2 =>
            (("repo-add" \in Elements(names)) <=> (local.repoExists = "no"))
       /\ \A k \in 3..Rank(names[n]) : InstallOrder[k] \in Elements(names)
       /\ ~local.ran[n].ok =>
            /\ pc = "done"
            /\ exitCode = 1
            /\ outcome = "step-error"
            /\ lastCmd = local.ran[n].cmd

C14_SpinnerFinalisedOnce ==
  child.role = "establishPortForward" => Len(child.spinner) <= 1

\* C15: the install-state cache changes only where run() and the flows
\* assign the result of detectInstallState: at start-up, after the last step
\* of the install flow succeeded, after the uninstall flow went through.  When
\* helm list fails or its output does not parse the cache keeps its value;
\* when it answers a list, the agent (dashboard) entry is non-null exactly
\* when a release named clustercost-agent (clustercost-dashboard) is listed.
IsListed(answer, releaseName) ==
  \E i \in 1..Len(answer.items) : answer.items[i].name = releaseName

C15_CacheFollowsHelmList ==
  [][ /\ installState' # installState => pc \in DetectPcs
      /\ pc = "detect_after_install" =>
           /\ InstallRan # << >>
           /\ InstallRan[Len(InstallRan)] = "deploy-dashboard"
           /\ \A i \in 1..Len(local.ran) : local.ran[i].ok
      /\ pc = "detect_after_uninstall" => local.confirmRemoval = "yes"
      /\ pc \in DetectPcs =>
           LET answer == local'.helmList
           IN /\ answer # NoAnswer
              /\ ~answer.ok => installState' = installState
              /\ answer.ok =>
                   /\ (installState'.agent # Null) <=> IsListed(answer, AGENT_RELEASE)
                   /\ (installState'.dashboard # Null)
                        <=> IsListed(answer, DASHBOARD_RELEASE)
    ]_vars

\* helm list failed after a flow and the cache still names the releases
\* found before.
C15_Witness ==
  /\ pc = "menu"
  /\ local.helmList \in {Failed("failed"), Failed("unparseable")}
  /\ installState.agent # Null
  /\ installState.dashboard = Null
  /\ changed

====
